---- MODULE Spec2Model ----
(***************************************************************************)
(* Style store, write coalescer, maintenance engine and scheduler of the   *)
(* astrbot_plugin_iearning_style plugin.                                   *)
(*                                                                         *)
(* The plugin runs on one asyncio event loop.  A coroutine is suspended    *)
(* only at a real suspension point: asyncio.sleep and the provider's       *)
(* text_chat call.  `async with self.lock` never suspends, because the     *)
(* lock is only ever held across blocking file I/O, and awaiting a         *)
(* coroutine that does not suspend runs it inline.  Every handler is       *)
(* therefore one atomic action, apart from the delayed save (sleep, then   *)
(* write) and the two periodic loops (sleep, then work).                   *)
(***************************************************************************)
EXTENDS Integers, Sequences, FiniteSets, TLC

\* ---------------------------------------------------------------- bounds
MaxMutations == 2        \* mutating calls (upsert, append, clear, maintenance, analysis)
MaxAdvances == 2         \* steps of the event-loop clock

\* ------------------------------------------------------ program constants
SaveDelay == 5                   \* DataManager._save_delay
OneDay == 86400                  \* seconds per day in the decay rule
MaintenanceInterval == 86400     \* maintenance_interval_seconds default
AnalysisInterval == 3600         \* analysis_interval_seconds default
InitialProficiency == 10         \* proficiency of a new record
ProficiencyStep == 10            \* gain of a repeated record
ProficiencyCap == 100            \* upper limit of the gain
HistoryLimit == 100              \* limit= passed by analyze_and_learn

Sessions == {"s1", "s2"}
Types == {"language_style", "grammar_feature"}
\* the (content, type) pairs the callers upsert
Traits == {<< "a", "language_style" >>, << "a", "grammar_feature" >>, << "b", "language_style" >>}
Domains == {"styles", "history"}
TimeSteps == {3, OneDay}         \* the clock advances by less than the delay, or by a day
None == 0                        \* Python None for a task handle

\* ------------------------------------------------------------ Python dicts
EmptyDict == << >>

Get(d, k, default) == IF k \in DOMAIN d THEN d[k] ELSE default

Put(d, k, v) == [x \in (DOMAIN d) \cup {k} |-> IF x = k THEN v ELSE d[x]]

\* list(d.keys()) / d.items(): the sessions in the order they were first seen
KeyOrders(map) ==
    {q \in [1..Cardinality(DOMAIN map) -> DOMAIN map] :
        \A i, j \in DOMAIN q : i # j => q[i] # q[j]}

Max(a, b) == IF a >= b THEN a ELSE b

Min(a, b) == IF a <= b THEN a ELSE b

\* int(a / b) of Python for b > 0: the quotient truncated toward zero
TruncDiv(a, b) == IF a >= 0 THEN a \div b ELSE -((-a) \div b)

\* list[-n:] of Python for n >= 0 (list[-0:] is list[0:], the whole list)
LastSlice(list, n) ==
    IF n = 0 \/ n >= Len(list) THEN list
    ELSE SubSeq(list, Len(list) - n + 1, Len(list))

\* ------------------------------------------------------------ style records
StyleRecord(c, t, p, ca, lu) ==
    [content |-> c, type |-> t, proficiency |-> p, created_at |-> ca, last_updated |-> lu]

Proficiency(r) == Get(r, "proficiency", 0)

\* the loop of add_or_update_style giving up after the first record
FirstMatchHeadOnly(list, c, t) ==
    IF Len(list) > 0 /\ list[1].content = c /\ list[1].type = t THEN 1 ELSE 0

\* the index of the first record the loop of add_or_update_style matches, 0 if none
FirstMatch(list, c, t) ==
    IF \E i \in 1..Len(list) : list[i].content = c /\ list[i].type = t
    THEN CHOOSE i \in 1..Len(list) :
            /\ list[i].content = c /\ list[i].type = t
            /\ \A j \in 1..(i - 1) : ~(list[j].content = c /\ list[j].type = t)
    ELSE 0

\* add_or_update_style without the upper limit of the gain
UpsertListUncapped(list, c, t, time) ==
    LET i == FirstMatch(list, c, t) IN
    IF i > 0
    THEN [list EXCEPT ![i] =
            Put(Put(@, "proficiency", Proficiency(@) + ProficiencyStep), "last_updated", time)]
    ELSE Append(list, StyleRecord(c, t, InitialProficiency, time, time))

\* add_or_update_style stamping created_at of a record it updates
UpsertListRestamps(list, c, t, time) ==
    LET i == FirstMatch(list, c, t) IN
    IF i > 0
    THEN [list EXCEPT ![i] =
            Put(Put(Put(@, "proficiency", Min(ProficiencyCap, Proficiency(@) + ProficiencyStep)),
                    "last_updated", time), "created_at", time)]
    ELSE Append(list, StyleRecord(c, t, InitialProficiency, time, time))

\* the record list of a session after add_or_update_style
UpsertList(list, c, t, time) ==
    LET i == FirstMatch(list, c, t) IN
    IF i > 0
    THEN [list EXCEPT ![i] =
            Put(Put(@, "proficiency", Min(ProficiencyCap, Proficiency(@) + ProficiencyStep)),
                "last_updated", time)]
    ELSE Append(list, StyleRecord(c, t, InitialProficiency, time, time))

AddOrUpdateStyleMap(map, s, c, t, time) ==
    Put(map, s, UpsertList(Get(map, s, << >>), c, t, time))

\* ---------------------------------------------------------------- decay
DecayAmount(r, time, rate) ==
    TruncDiv(time - Get(r, "last_updated", time), OneDay) * rate

\* the decay without the reset of the decay clock
DecayRecordKeepsStamp(r, time, rate) ==
    IF DecayAmount(r, time, rate) > 0
    THEN Put(r, "proficiency", Max(0, Proficiency(r) - DecayAmount(r, time, rate)))
    ELSE r

DecayRecord(r, time, rate) ==
    IF DecayAmount(r, time, rate) > 0
    THEN Put(Put(r, "proficiency", Max(0, Proficiency(r) - DecayAmount(r, time, rate))),
             "last_updated", time)
    ELSE r

DecayMap(map, time, rate) ==
    [s \in DOMAIN map |-> [i \in 1..Len(map[s]) |-> DecayRecord(map[s][i], time, rate)]]

\* a last_updated that is not a number (a string a hand edit left in the file)
NotANumber == -1

\* current_time - style.get("last_updated", current_time) raises TypeError
Malformed(r) == Get(r, "last_updated", 0) = NotANumber

FirstMalformed(list) ==
    IF \E i \in 1..Len(list) : Malformed(list[i])
    THEN CHOOSE i \in 1..Len(list) :
            Malformed(list[i]) /\ \A j \in 1..(i - 1) : ~Malformed(list[j])
    ELSE 0

\* the decay loop meets a record it raises on
DecayRaises(map) == \E s \in DOMAIN map : FirstMalformed(map[s]) > 0

\* the map the decay loop leaves behind when it raises: the records are changed
\* in place, in the order of the sessions, up to the record that raises
DecayMapUntilRaise(map, order, time, rate) ==
    LET p == CHOOSE p \in 1..Len(order) :
                /\ FirstMalformed(map[order[p]]) > 0
                /\ \A q \in 1..(p - 1) : FirstMalformed(map[order[q]]) = 0
    IN [s \in DOMAIN map |->
          [i \in 1..Len(map[s]) |->
              IF \/ \E q \in 1..(p - 1) : order[q] = s
                 \/ (s = order[p] /\ i < FirstMalformed(map[s]))
              THEN DecayRecord(map[s][i], time, rate)
              ELSE map[s][i]]]

\* ------------------------------------------------------------- eviction
\* the filter keeping the exhausted records
AliveOrExhausted(r) == Proficiency(r) >= 0

Alive(r) == Proficiency(r) > 0

\* [s for s in styles if s.get("proficiency", 0) > 0] for every session
EvictExhaustedMap(map) == [s \in DOMAIN map |-> SelectSeq(map[s], Alive)]

\* an ascending sort that puts a record before the records equal to it
RECURSIVE InsertBeforeEqual(_, _)
InsertBeforeEqual(sorted, r) ==
    IF sorted = << >> THEN << r >>
    ELSE IF Proficiency(Head(sorted)) < Proficiency(r)
         THEN << Head(sorted) >> \o InsertBeforeEqual(Tail(sorted), r)
         ELSE << r >> \o sorted

\* sorted(list, key=proficiency): stable insertion into an ascending list
RECURSIVE InsertAscending(_, _)
InsertAscending(sorted, r) ==
    IF sorted = << >> THEN << r >>
    ELSE IF Proficiency(Head(sorted)) <= Proficiency(r)
         THEN << Head(sorted) >> \o InsertAscending(Tail(sorted), r)
         ELSE << r >> \o sorted

RECURSIVE SortedAscending(_)
SortedAscending(list) ==
    IF list = << >> THEN << >>
    ELSE InsertAscending(SortedAscending(SubSeq(list, 1, Len(list) - 1)), list[Len(list)])

CapacityList(list, max_styles) ==
    IF Len(list) > max_styles
    THEN LastSlice(SortedAscending(list), max_styles)
    ELSE list

CapacityMap(map, max_styles) ==
    [s \in DOMAIN map |-> CapacityList(map[s], max_styles)]

\* ------------------------------------------------------------- selection
\* list[:n] of Python for n >= 0
FirstSlice(list, n) == SubSeq(list, 1, Min(n, Len(list)))

\* [s for s in styles if s.get("type") == t and s.get("proficiency", 0) >= min_proficiency]
Eligible(list, t, min_proficiency) ==
    SelectSeq(list, LAMBDA r : Get(r, "type", "") = t /\ Proficiency(r) >= min_proficiency)

\* sorted(list, key=proficiency, reverse=True): stable, descending
RECURSIVE InsertDescending(_, _)
InsertDescending(sorted, r) ==
    IF sorted = << >> THEN << r >>
    ELSE IF Proficiency(Head(sorted)) >= Proficiency(r)
         THEN << Head(sorted) >> \o InsertDescending(Tail(sorted), r)
         ELSE << r >> \o sorted

RECURSIVE SortedDescending(_)
SortedDescending(list) ==
    IF list = << >> THEN << >>
    ELSE InsertDescending(SortedDescending(SubSeq(list, 1, Len(list) - 1)), list[Len(list)])

\* sum(s.get("proficiency", 0) for s in list[:i])
RECURSIVE Cumulative(_, _)
Cumulative(list, i) ==
    IF i = 0 THEN 0 ELSE Cumulative(list, i - 1) + Proficiency(list[i])

TotalProficiency(list) == Cumulative(list, Len(list))

Contents(list) == [i \in 1..Len(list) |-> list[i].content]

\* the records one draw can select: the walk stops at the first record whose
\* cumulative weight reaches r; record i is selected for some r in [0, total]
\* when its cumulative weight is not negative and lies above those before it
Pickable(list) ==
    {i \in 1..Len(list) :
        /\ Min(Cumulative(list, i), TotalProficiency(list)) >= 0
        /\ \A j \in 1..(i - 1) :
              Cumulative(list, j) < Min(Cumulative(list, i), TotalProficiency(list))}

\* a draw that leaves the record it selected among the candidates
RemoveNothing(list, i) == list

\* remaining_styles.remove(style)
Remove(list, i) == SubSeq(list, 1, i - 1) \o SubSeq(list, i + 1, Len(list))

\* the for loop of _weighted_random_selection with n iterations left: every
\* list of contents some sequence of draws produces
RECURSIVE Draws(_, _, _)
Draws(remaining, n, selected) ==
    IF n <= 0 \/ remaining = << >> \/ TotalProficiency(remaining) <= 0
    THEN {selected}
    ELSE UNION {Draws(Remove(remaining, i), n - 1, Append(selected, remaining[i].content)) :
                    i \in Pickable(remaining)}

\* StyleSelector._weighted_random_selection: the lists it can return
WeightedRandomSelection(list, max_count) ==
    IF list = << >> THEN {<< >>}
    ELSE IF TotalProficiency(SortedDescending(list)) <= 0
         THEN {Contents(FirstSlice(SortedDescending(list), max_count))}
         ELSE Draws(SortedDescending(list), Min(max_count, Len(list)), << >>)

\* StyleSelector.select_styles_for_session: the dictionaries it can return
SelectStylesForSession(map, s, max_styles, min_proficiency) ==
    IF Get(map, s, << >>) = << >>
    THEN {[language_styles |-> << >>, grammar_features |-> << >>]}
    ELSE {[language_styles |-> l, grammar_features |-> g] :
            l \in WeightedRandomSelection(
                     Eligible(map[s], "language_style", min_proficiency), max_styles),
            g \in WeightedRandomSelection(
                     Eligible(map[s], "grammar_feature", min_proficiency), max_styles)}

\* ------------------------------------------------------------- injection
\* a prompt is a sequence of pieces of text; " " is a piece of white space
\* sep.join(list)
RECURSIVE Join(_, _)
Join(list, sep) ==
    IF list = << >> THEN << >>
    ELSE IF Len(list) = 1 THEN << list[1] >>
         ELSE << list[1], sep >> \o Join(Tail(list), sep)

\* StyleSelector.build_style_prompt: "" when both lists are empty
BuildStylePrompt(sel) ==
    IF sel.language_styles = << >> /\ sel.grammar_features = << >> THEN << >>
    ELSE << "header" >>
         \o (IF sel.language_styles # << >>
             THEN << "language_styles:" >> \o Join(sel.language_styles, ", ") ELSE << >>)
         \o (IF sel.language_styles # << >> /\ sel.grammar_features # << >>
             THEN << "; " >> ELSE << >>)
         \o (IF sel.grammar_features # << >>
             THEN << "grammar_features:" >> \o Join(sel.grammar_features, ", ") ELSE << >>)

\* not original_system_prompt.strip()
Blank(prompt) == \A i \in 1..Len(prompt) : prompt[i] = " "

\* StyleInjector.should_inject_style
ShouldInjectStyle(cfg, map, s) ==
    /\ cfg.enable_style_injection
    /\ Get(map, s, << >>) # << >>
    /\ \E i \in 1..Len(map[s]) : Proficiency(map[s][i]) >= cfg.min_proficiency_for_injection

\* the min_proficiency default of select_styles_for_session, which
\* inject_style_to_prompt does not override
DefaultMinProficiency == 20

\* the selections inject_style_to_prompt can work with
InjectSelections(cfg, map, s) ==
    IF ShouldInjectStyle(cfg, map, s)
    THEN SelectStylesForSession(map, s, cfg.max_styles_in_prompt, DefaultMinProficiency)
    ELSE {[language_styles |-> << >>, grammar_features |-> << >>]}

\* StyleInjector.inject_style_to_prompt, given the selection it drew
InjectStyleToPrompt(cfg, map, s, original, sel) ==
    IF ~ShouldInjectStyle(cfg, map, s) THEN original
    ELSE IF BuildStylePrompt(sel) = << >> THEN original
    ELSE IF Blank(original) THEN BuildStylePrompt(sel)
    ELSE original \o << "\n\n" >> \o BuildStylePrompt(sel)

\* ------------------------------------------------------------------ state
VARIABLES
    config,              \* the plugin configuration, fixed at construction
    now,                 \* the event loop's clock, loop.time()
    styles,              \* DataManager.styles: session -> list of records
    chat_history,        \* DataManager.chat_history: session -> list of messages
    dirty_styles,        \* DataManager._dirty_styles
    dirty_chat_history,  \* DataManager._dirty_chat_history
    save_timer,          \* DataManager._save_timer: a task id or None
    timers,              \* the _delayed_save tasks that are asleep: [id, due]
    styles_file,         \* content of styles.json
    chat_history_file,   \* content of chat_history.json
    pending_saves,       \* save_styles tasks created by clear_styles, not yet run
    is_running,          \* Scheduler.is_running
    maintenance_task,    \* Scheduler.maintenance_task: [st, due]
    analysis_task,       \* Scheduler.analysis_task: [st, due, todo, cur, given]
    mpc,                 \* position inside a maintenance pass, "idle" outside
    lifecycle,           \* "loaded", "running", "terminated"
    mutations,           \* number of mutating calls so far
    advances,            \* number of clock steps so far
    loaded_ok,           \* the styles file held only complete records when loaded
    lastOp,              \* the handler that ran last, with what it wrote
    burst                \* the mutations and writes since the flush was last idle

vars == << config, now, styles, chat_history, dirty_styles, dirty_chat_history,
           save_timer, timers, styles_file, chat_history_file, pending_saves,
           is_running, maintenance_task, analysis_task, mpc, lifecycle,
           mutations, advances, loaded_ok, lastOp, burst >>

storeVars == << styles, chat_history >>
flushVars == << dirty_styles, dirty_chat_history, save_timer, timers >>
fileVars == << styles_file, chat_history_file >>
schedVars == << is_running, maintenance_task, analysis_task >>

\* ------------------------------------------------------------ files on disk
Json(map) == [kind |-> "json", data |-> map]         \* a file json.dump wrote
Corrupt == [kind |-> "corrupt", data |-> EmptyDict]  \* a file json.load cannot parse
Missing == [kind |-> "missing", data |-> EmptyDict]  \* no file

Message(time) == [sender |-> "u", content |-> "m", timestamp |-> time]

\* a store as a previous run left it: the capacity example, a record at the cap's
\* edge updated a little later than the others, one exhausted record, one
\* stamped by a clock that ran ahead of this one
StoreFull ==
    [s1 |-> << StyleRecord("a", "language_style", 2, 0, 0),
               StyleRecord("b", "language_style", 50, 0, 0),
               StyleRecord("a", "grammar_feature", 95, 0, 3) >>,
     s2 |-> << StyleRecord("a", "language_style", 0, 0, 0),
               StyleRecord("b", "grammar_feature", 30, 0, 2 * OneDay + 3) >>]

\* a store edited by hand: a record without proficiency and last_updated
StorePartial ==
    [s1 |-> << [content |-> "a", type |-> "language_style", created_at |-> 0],
               StyleRecord("b", "language_style", 1, 0, 0) >>]

\* a store with exhausted and live records of one type, two of them equal, and
\* records on both sides of the selection threshold
StoreMixed ==
    [s1 |-> << StyleRecord("a", "language_style", 0, 0, 0),
               StyleRecord("b", "language_style", 30, 0, 0),
               StyleRecord("c", "language_style", 30, 0, 0),
               StyleRecord("a", "grammar_feature", 20, 0, 0),
               StyleRecord("b", "grammar_feature", 19, 0, 0) >>]

\* a store with a record whose last_updated is not a number
StoreBroken ==
    [s1 |-> << StyleRecord("a", "language_style", 50, 0, NotANumber) >>,
     s2 |-> << StyleRecord("b", "language_style", 50, 0, 0) >>]

\* a store of one record that a day of decay exhausts
StoreSmall == [s1 |-> << StyleRecord("a", "language_style", 1, 0, 0) >>]

\* the two files as construction finds them
Loads ==
    { [styles |-> Corrupt, history |-> Missing],
      [styles |-> Json(StoreFull), history |-> Json([s1 |-> << Message(0) >>])],
      [styles |-> Json(StorePartial), history |-> Missing],
      [styles |-> Json(StoreSmall), history |-> Json([s1 |-> << Message(0) >>])],
      [styles |-> Json(StoreMixed), history |-> Json([s1 |-> << Message(0) >>])],
      [styles |-> Json(StoreBroken),
       history |-> Json([s1 |-> << Message(0) >>, s2 |-> << Message(0) >>])] }

\* load_styles / load_chat_history: a missing or unparsable file yields {}
LoadFile(file) == IF file.kind = "json" THEN file.data ELSE EmptyDict

Complete(map) ==
    \A s \in DOMAIN map : \A i \in 1..Len(map[s]) :
        {"proficiency", "last_updated", "created_at"} \subseteq DOMAIN map[s][i]

Config(rate, max_styles) ==
    [proficiency_decay_rate |-> rate, max_styles_per_session |-> max_styles,
     min_history_for_analysis |-> 1, enable_style_injection |-> TRUE,
     min_proficiency_for_injection |-> 20, max_styles_in_prompt |-> 3]

\* the configurations: the capacity example with the default rate, a faster
\* decay with a smaller capacity, no decay with no capacity
Configs == {Config(1, 2), Config(2, 1), Config(0, 0)}

\* the configurations of the injection: the defaults, the injection switched
\* off, a gate of 0 with one style per prompt, a gate above the selection
\* threshold with no style and with one style per prompt
ReadConfigs ==
    { Config(1, 2),
      [Config(1, 2) EXCEPT !.enable_style_injection = FALSE],
      [Config(1, 2) EXCEPT !.min_proficiency_for_injection = 0, !.max_styles_in_prompt = 1],
      [Config(1, 2) EXCEPT !.min_proficiency_for_injection = 40, !.max_styles_in_prompt = 0],
      [Config(1, 2) EXCEPT !.min_proficiency_for_injection = 40, !.max_styles_in_prompt = 1] }

\* ------------------------------------------------------- write coalescer
\* a write succeeds, or open() raises IOError and the file stays as it was
WriteOutcomes == {"ok", "failed"}

\* the outcomes of `if dirty: await save()`: no write when the flag is clear
Attempts(dirty) == IF dirty THEN WriteOutcomes ELSE {"skip"}

\* the file after the with-block of save_styles / save_chat_history
FileAfterWrite(file, map, outcome) == IF outcome = "ok" THEN Json(map) ELSE file

\* the flag cleared before the write is known to have succeeded
DirtyAfterWriteAlways(dirty, outcome) == FALSE

\* save_styles / save_chat_history clear the flag after the dump, inside the try
DirtyAfterWrite(dirty, outcome) == IF outcome = "ok" THEN FALSE ELSE dirty

Written(os, oh) ==
    (IF os = "ok" THEN {"styles"} ELSE {}) \cup (IF oh = "ok" THEN {"history"} ELSE {})

Failed(os, oh) ==
    (IF os = "failed" THEN {"styles"} ELSE {}) \cup (IF oh = "failed" THEN {"history"} ELSE {})

\* task.cancel() on a sleeping task: it never resumes
CancelTimer(tm, id) == {t \in tm : t.id # id}

FreshId(tm) == CHOOSE i \in 1..(Cardinality(tm) + 1) : \A t \in tm : t.id # i

\* _schedule_save that cancels the task already scheduled and creates none
ScheduleSaveCancelOnly(f, time) ==
    IF f.save_timer # None
    THEN [save_timer |-> None, timers |-> CancelTimer(f.timers, f.save_timer)]
    ELSE [save_timer |-> 1, timers |-> f.timers \cup {[id |-> 1, due |-> time + SaveDelay]}]

\* _schedule_save without the cancel of the task already scheduled
ScheduleSaveNoCancel(f, time) ==
    LET id == FreshId(f.timers)
    IN [save_timer |-> id, timers |-> f.timers \cup {[id |-> id, due |-> time + SaveDelay]}]

\* _schedule_save on the pair [save_timer, timers] at the given time
ScheduleSave(f, time) ==
    LET live == IF f.save_timer # None THEN CancelTimer(f.timers, f.save_timer) ELSE f.timers
        id == FreshId(live)
    IN [save_timer |-> id, timers |-> live \cup {[id |-> id, due |-> time + SaveDelay]}]

Flush == [save_timer |-> save_timer, timers |-> timers]

\* ------------------------------------------------------------ bookkeeping
\* lastOp: the handler, its arguments, the domains whose write failed and, for a
\* read, the arguments and the value of the call
NoResult == << >>

Op(name, s, c, t, failed) ==
    [op |-> name, s |-> s, c |-> c, t |-> t, failed |-> failed, result |-> NoResult]

\* burst: the domains mutated through _schedule_save since the flush was last
\* idle, the time of the last of these mutations and the writes of each domain
\* since the first.  A burst is pure while nothing but these mutations and the
\* delayed save with every write succeeding has happened; an impure burst is
\* not followed further.
NoBurst == [mutated |-> {}, writes |-> [d \in Domains |-> 0], pure |-> TRUE, last |-> 0]

Impure == [mutated |-> {}, writes |-> [d \in Domains |-> 0], pure |-> FALSE, last |-> 0]

BurstMutate(b, timer, ds, time) ==
    IF timer = None
    THEN [mutated |-> ds, writes |-> [d \in Domains |-> 0], pure |-> TRUE, last |-> time]
    ELSE IF b.pure THEN [b EXCEPT !.mutated = @ \cup ds, !.last = time]
         ELSE Impure

BurstWrite(b, wrote, failed, delayed) ==
    IF b.pure /\ delayed /\ failed = {}
    THEN [b EXCEPT !.writes = [d \in Domains |-> IF d \in wrote THEN Min(2, @[d] + 1) ELSE @[d]]]
    ELSE Impure

Idle == mpc = "idle" /\ lifecycle = "running"

CanMutate == Idle /\ mutations < MaxMutations

Init ==
    /\ config \in Configs \cup ReadConfigs
    /\ now = 0
    /\ \E load \in Loads : styles_file = load.styles /\ chat_history_file = load.history
    /\ styles = LoadFile(styles_file)
    /\ chat_history = LoadFile(chat_history_file)
    /\ dirty_styles = FALSE
    /\ dirty_chat_history = FALSE
    /\ save_timer = None
    /\ timers = {}
    /\ pending_saves = 0
    /\ is_running = FALSE
    /\ maintenance_task = [st |-> "none", due |-> 0]
    /\ analysis_task = [st |-> "none", due |-> 0, todo |-> << >>, cur |-> "", given |-> << >>]
    /\ mpc = "idle"
    /\ lifecycle = "loaded"
    /\ mutations = 0
    /\ advances = 0
    /\ loaded_ok = Complete(LoadFile(styles_file))
    /\ lastOp = Op("init", "", "", "", {})
    /\ burst = NoBurst

\* ---------------------------------------------------------------- handlers
\* DataManager.add_or_update_style
Upsert(s, c, t) ==
    /\ CanMutate
    /\ styles' = AddOrUpdateStyleMap(styles, s, c, t, now)
    /\ dirty_styles' = TRUE
    /\ save_timer' = ScheduleSave(Flush, now).save_timer
    /\ timers' = ScheduleSave(Flush, now).timers
    /\ mutations' = mutations + 1
    /\ lastOp' = Op("upsert", s, c, t, {})
    /\ burst' = BurstMutate(burst, save_timer, {"styles"}, now)
    /\ UNCHANGED << config, now, chat_history, dirty_chat_history, fileVars, pending_saves,
                    schedVars, mpc, lifecycle, advances, loaded_ok >>

\* on_message -> DataManager.add_message_to_history
AddMessage(s) ==
    /\ CanMutate
    /\ chat_history' = Put(chat_history, s, Append(Get(chat_history, s, << >>), Message(now)))
    /\ dirty_chat_history' = TRUE
    /\ save_timer' = ScheduleSave(Flush, now).save_timer
    /\ timers' = ScheduleSave(Flush, now).timers
    /\ mutations' = mutations + 1
    /\ lastOp' = Op("append", s, "", "", {})
    /\ burst' = BurstMutate(burst, save_timer, {"history"}, now)
    /\ UNCHANGED << config, now, styles, dirty_styles, fileVars, pending_saves,
                    schedVars, mpc, lifecycle, advances, loaded_ok >>

\* DataManager.clear_chat_history: nothing happens for an unknown session
ClearHistoryMap(map, s) == IF s \in DOMAIN map THEN Put(map, s, << >>) ELSE map

ClearChatHistory(s) ==
    /\ CanMutate
    /\ s \in DOMAIN chat_history
    /\ chat_history' = ClearHistoryMap(chat_history, s)
    /\ dirty_chat_history' = TRUE
    /\ save_timer' = ScheduleSave(Flush, now).save_timer
    /\ timers' = ScheduleSave(Flush, now).timers
    /\ mutations' = mutations + 1
    /\ lastOp' = Op("clear_history", s, "", "", {})
    /\ burst' = BurstMutate(burst, save_timer, {"history"}, now)
    /\ UNCHANGED << config, now, styles, dirty_styles, fileVars, pending_saves,
                    schedVars, mpc, lifecycle, advances, loaded_ok >>

\* _delayed_save once its sleep is over: write what is dirty, drop the handle
DelayedSave(t, os, oh) ==
    /\ mpc = "idle"
    /\ t \in timers
    /\ now >= t.due
    /\ os \in Attempts(dirty_styles)
    /\ oh \in Attempts(dirty_chat_history)
    /\ styles_file' = FileAfterWrite(styles_file, styles, os)
    /\ dirty_styles' = DirtyAfterWrite(dirty_styles, os)
    /\ chat_history_file' = FileAfterWrite(chat_history_file, chat_history, oh)
    /\ dirty_chat_history' = DirtyAfterWrite(dirty_chat_history, oh)
    /\ save_timer' = None
    /\ timers' = timers \ {t}
    /\ lastOp' = Op("delayed_save", "", "", "", Failed(os, oh))
    /\ burst' = BurstWrite(burst, Written(os, oh), Failed(os, oh), TRUE)
    /\ UNCHANGED << config, now, storeVars, pending_saves, schedVars, mpc, lifecycle,
                    mutations, advances, loaded_ok >>

\* force_save dropping the handle without cancelling the task
ForceCancelHandleOnly(f) == [save_timer |-> None, timers |-> f.timers]

\* the flush state after the cancel at the top of force_save
ForceCancel(f) ==
    IF f.save_timer # None
    THEN [save_timer |-> None, timers |-> CancelTimer(f.timers, f.save_timer)]
    ELSE f

\* DataManager.force_save
ForceSave(os, oh) ==
    /\ Idle
    /\ os \in Attempts(dirty_styles)
    /\ oh \in Attempts(dirty_chat_history)
    /\ save_timer' = ForceCancel(Flush).save_timer
    /\ timers' = ForceCancel(Flush).timers
    /\ styles_file' = FileAfterWrite(styles_file, styles, os)
    /\ dirty_styles' = DirtyAfterWrite(dirty_styles, os)
    /\ chat_history_file' = FileAfterWrite(chat_history_file, chat_history, oh)
    /\ dirty_chat_history' = DirtyAfterWrite(dirty_chat_history, oh)
    /\ lastOp' = Op("force_save", IF save_timer # None THEN "pending" ELSE "", "", "",
                     Failed(os, oh))
    /\ burst' = BurstWrite(burst, Written(os, oh), Failed(os, oh), FALSE)
    /\ UNCHANGED << config, now, storeVars, pending_saves, schedVars, mpc, lifecycle,
                    mutations, advances, loaded_ok >>

\* the clock moves; a sleeping task whose time has come may resume afterwards
Advance(d) ==
    /\ mpc = "idle"
    /\ lifecycle # "loaded"
    /\ advances < MaxAdvances
    /\ now' = now + d
    /\ advances' = advances + 1
    /\ lastOp' = Op("advance", "", "", "", {})
    /\ UNCHANGED << config, storeVars, flushVars, fileVars, pending_saves, schedVars,
                    mpc, lifecycle, mutations, loaded_ok, burst >>

\* time passes until the asyncio.sleep of the next sleeping _delayed_save ends
Elapse ==
    /\ mpc = "idle"
    /\ \E t \in timers : now < t.due
    /\ now' = CHOOSE d \in {t.due : t \in {u \in timers : now < u.due}} :
                  \A t \in timers : now < t.due => d <= t.due
    /\ lastOp' = Op("elapse", "", "", "", {})
    /\ UNCHANGED << config, storeVars, flushVars, fileVars, pending_saves, schedVars,
                    mpc, lifecycle, mutations, advances, loaded_ok, burst >>

\* the "清空风格" command, IearningStylePlugin.clear_styles: the record list is
\* emptied and a save_styles task is created; the task runs on a later turn
ClearStylesMap(map, s) == IF s \in DOMAIN map THEN Put(map, s, << >>) ELSE map

ClearStyles(s) ==
    /\ CanMutate
    /\ s \in DOMAIN styles
    /\ styles' = ClearStylesMap(styles, s)
    /\ dirty_styles' = TRUE
    /\ pending_saves' = pending_saves + 1
    /\ mutations' = mutations + 1
    /\ lastOp' = Op("clear_styles", s, "", "", {})
    /\ burst' = Impure
    /\ UNCHANGED << config, now, chat_history, dirty_chat_history, save_timer, timers,
                    fileVars, schedVars, mpc, lifecycle, advances, loaded_ok >>

\* the save_styles task of clear_styles
RunSaveTask(os) ==
    /\ mpc = "idle"
    /\ pending_saves > 0
    /\ os \in WriteOutcomes
    /\ styles_file' = FileAfterWrite(styles_file, styles, os)
    /\ dirty_styles' = DirtyAfterWrite(dirty_styles, os)
    /\ pending_saves' = pending_saves - 1
    /\ lastOp' = Op("save_task", "", "", "", Failed(os, "skip"))
    /\ burst' = BurstWrite(burst, Written(os, "skip"), Failed(os, "skip"), FALSE)
    /\ UNCHANGED << config, now, storeVars, dirty_chat_history, save_timer, timers,
                    chat_history_file, schedVars, mpc, lifecycle, mutations, advances,
                    loaded_ok >>

\* ------------------------------------------------------------- scheduler
\* initialize -> Scheduler.start
Initialize ==
    /\ lifecycle = "loaded"
    /\ lifecycle' = "running"
    /\ is_running' = TRUE
    /\ analysis_task' = [st |-> "sleeping", due |-> now + AnalysisInterval,
                         todo |-> << >>, cur |-> "", given |-> << >>]
    /\ maintenance_task' = [st |-> "sleeping", due |-> now + MaintenanceInterval]
    /\ lastOp' = Op("initialize", "", "", "", {})
    /\ UNCHANGED << config, now, storeVars, flushVars, fileVars, pending_saves, mpc,
                    mutations, advances, loaded_ok, burst >>

\* task.cancel() of Scheduler.stop: a task that is asleep or awaiting the
\* provider gets CancelledError, which no handler in the loops catches
CancelTask(task) ==
    IF task.st \in {"sleeping", "awaiting"} THEN [task EXCEPT !.st = "cancelled"] ELSE task

\* Scheduler.stop is a plain function: it returns None
StopResult == None

\* `await x` raises TypeError unless x is awaitable
Awaitable(x) == x # None

\* IearningStylePlugin.terminate: stop() runs, then its result is awaited and
\* force_save follows only if that await returns
Terminate(os, oh) ==
    /\ Idle
    /\ lifecycle' = "terminated"
    /\ is_running' = FALSE
    /\ analysis_task' = (IF is_running THEN CancelTask(analysis_task) ELSE analysis_task)
    /\ maintenance_task' = (IF is_running THEN CancelTask(maintenance_task) ELSE maintenance_task)
    /\ IF Awaitable(StopResult)
       THEN /\ os \in Attempts(dirty_styles)
            /\ oh \in Attempts(dirty_chat_history)
            /\ save_timer' = ForceCancel(Flush).save_timer
            /\ timers' = ForceCancel(Flush).timers
            /\ styles_file' = FileAfterWrite(styles_file, styles, os)
            /\ dirty_styles' = DirtyAfterWrite(dirty_styles, os)
            /\ chat_history_file' = FileAfterWrite(chat_history_file, chat_history, oh)
            /\ dirty_chat_history' = DirtyAfterWrite(dirty_chat_history, oh)
            /\ lastOp' = Op("terminate", "returned", "", "", Failed(os, oh))
            /\ burst' = BurstWrite(burst, Written(os, oh), Failed(os, oh), FALSE)
       ELSE /\ os = "skip"
            /\ oh = "skip"
            /\ lastOp' = Op("terminate", "TypeError", "", "", {})
            /\ UNCHANGED << flushVars, fileVars, burst >>
    /\ UNCHANGED << config, now, storeVars, pending_saves, mpc, mutations, advances,
                    loaded_ok >>

\* ------------------------------------------------------------ maintenance
\* Scheduler._run_maintenance wakes up: _perform_decay, with its save_styles
PeriodicDecay(os) ==
    /\ Idle
    /\ maintenance_task.st = "sleeping"
    /\ now >= maintenance_task.due
    /\ ~DecayRaises(styles)
    /\ os \in WriteOutcomes
    /\ styles' = DecayMap(styles, now, config.proficiency_decay_rate)
    /\ styles_file' = FileAfterWrite(styles_file, styles', os)
    /\ dirty_styles' = DirtyAfterWrite(dirty_styles, os)
    /\ mpc' = "sc_evict"
    /\ lastOp' = Op("decay", "periodic", "", "", Failed(os, "skip"))
    /\ burst' = BurstWrite(burst, Written(os, "skip"), Failed(os, "skip"), FALSE)
    /\ UNCHANGED << config, now, chat_history, dirty_chat_history, save_timer, timers,
                    chat_history_file, pending_saves, schedVars, lifecycle, mutations,
                    advances, loaded_ok >>

\* Scheduler._run_maintenance wakes up and the loop of _perform_decay raises:
\* nothing between the loop and the task's coroutine catches, so the task ends
\* with the exception, before save_styles and before _perform_cleanup
PeriodicDecayRaises(order) ==
    /\ Idle
    /\ maintenance_task.st = "sleeping"
    /\ now >= maintenance_task.due
    /\ DecayRaises(styles)
    /\ order \in KeyOrders(styles)
    /\ styles' = DecayMapUntilRaise(styles, order, now, config.proficiency_decay_rate)
    /\ maintenance_task' = [st |-> "failed", due |-> 0]
    /\ lastOp' = Op("decay_raised", "periodic", "", "", {})
    /\ UNCHANGED << config, now, chat_history, flushVars, fileVars, pending_saves,
                    is_running, analysis_task, mpc, lifecycle, mutations, advances,
                    loaded_ok, burst >>

\* Scheduler._perform_cleanup, first loop
PeriodicEvict ==
    /\ mpc = "sc_evict"
    /\ styles' = EvictExhaustedMap(styles)
    /\ mpc' = "sc_capacity"
    /\ lastOp' = Op("evict", "periodic", "", "", {})
    /\ UNCHANGED << config, now, chat_history, flushVars, fileVars, pending_saves,
                    schedVars, lifecycle, mutations, advances, loaded_ok, burst >>

\* Scheduler._perform_cleanup, second loop and save_styles; the loop of
\* _run_maintenance then sleeps again
PeriodicCapacity(os) ==
    /\ mpc = "sc_capacity"
    /\ os \in WriteOutcomes
    /\ styles' = CapacityMap(styles, config.max_styles_per_session)
    /\ styles_file' = FileAfterWrite(styles_file, styles', os)
    /\ dirty_styles' = DirtyAfterWrite(dirty_styles, os)
    /\ mpc' = "idle"
    /\ maintenance_task' = [st |-> "sleeping", due |-> now + MaintenanceInterval]
    /\ lastOp' = Op("maintenance", "periodic", "", "", Failed(os, "skip"))
    /\ burst' = BurstWrite(burst, Written(os, "skip"), Failed(os, "skip"), FALSE)
    /\ UNCHANGED << config, now, chat_history, dirty_chat_history, save_timer, timers,
                    chat_history_file, pending_saves, is_running, analysis_task, lifecycle,
                    mutations, advances, loaded_ok >>

\* DataManager.perform_maintenance, first loop
DemandDecay ==
    /\ CanMutate
    /\ ~DecayRaises(styles)
    /\ styles' = DecayMap(styles, now, config.proficiency_decay_rate)
    /\ mpc' = "dm_evict"
    /\ mutations' = mutations + 1
    /\ lastOp' = Op("decay", "demand", "", "", {})
    /\ UNCHANGED << config, now, chat_history, flushVars, fileVars, pending_saves,
                    schedVars, lifecycle, advances, loaded_ok, burst >>

\* DataManager.perform_maintenance whose first loop raises: the exception goes
\* to the caller, before the dirty mark and _schedule_save
DemandDecayRaises(order) ==
    /\ CanMutate
    /\ DecayRaises(styles)
    /\ order \in KeyOrders(styles)
    /\ styles' = DecayMapUntilRaise(styles, order, now, config.proficiency_decay_rate)
    /\ mutations' = mutations + 1
    /\ lastOp' = Op("decay_raised", "demand", "", "", {})
    /\ UNCHANGED << config, now, chat_history, flushVars, fileVars, pending_saves,
                    schedVars, mpc, lifecycle, advances, loaded_ok, burst >>

\* DataManager.perform_maintenance, second loop
DemandEvict ==
    /\ mpc = "dm_evict"
    /\ styles' = EvictExhaustedMap(styles)
    /\ mpc' = "dm_capacity"
    /\ lastOp' = Op("evict", "demand", "", "", {})
    /\ UNCHANGED << config, now, chat_history, flushVars, fileVars, pending_saves,
                    schedVars, lifecycle, mutations, advances, loaded_ok, burst >>

\* DataManager.perform_maintenance, third loop, the dirty mark and _schedule_save
DemandCapacity ==
    /\ mpc = "dm_capacity"
    /\ styles' = CapacityMap(styles, config.max_styles_per_session)
    /\ dirty_styles' = TRUE
    /\ save_timer' = ScheduleSave(Flush, now).save_timer
    /\ timers' = ScheduleSave(Flush, now).timers
    /\ mpc' = "idle"
    /\ lastOp' = Op("maintenance", "demand", "", "", {})
    /\ burst' = BurstMutate(burst, save_timer, {"styles"}, now)
    /\ UNCHANGED << config, now, chat_history, dirty_chat_history, fileVars, pending_saves,
                    schedVars, lifecycle, mutations, advances, loaded_ok >>

\* --------------------------------------------------------------- analysis
\* what text_chat may give back: an assistant reply with the JSON of the traits,
\* an assistant reply json.loads rejects, a reply of another role, an exception
LLMResponses ==
    { [kind |-> "assistant", language_style |-> << "a", "a" >>, grammar_feature |-> << "a" >>],
      [kind |-> "unparsable", language_style |-> << >>, grammar_feature |-> << >>],
      [kind |-> "other_role", language_style |-> << >>, grammar_feature |-> << >>],
      [kind |-> "raises", language_style |-> << >>, grammar_feature |-> << >>] }

\* get_chat_history(session, limit): chat_history.get(session, [])[-limit:]
GetChatHistory(map, s, limit) == LastSlice(Get(map, s, << >>), limit)

\* analyze_and_learn returns at once when the history is shorter than the minimum
TooShort(map, s) ==
    Len(GetChatHistory(map, s, HistoryLimit)) < config.min_history_for_analysis

\* the sessions left in the for loop of _run_analysis, from the first one whose
\* analysis reaches the provider call
RECURSIVE SkipShort(_, _)
SkipShort(map, todo) ==
    IF todo = << >> THEN << >>
    ELSE IF TooShort(map, Head(todo)) THEN SkipShort(map, Tail(todo))
         ELSE todo

\* the analysis task after the for loop moved on: awaiting the provider for the
\* next session, given the transcript get_chat_history returned for the prompt,
\* or asleep again when no session is left
AnalysisMoveOn(map, todo, time) ==
    LET rest == SkipShort(map, todo) IN
    IF rest = << >>
    THEN [st |-> "sleeping", due |-> time + AnalysisInterval, todo |-> << >>, cur |-> "",
          given |-> << >>]
    ELSE [st |-> "awaiting", due |-> 0, todo |-> Tail(rest), cur |-> Head(rest),
          given |-> GetChatHistory(map, Head(rest), HistoryLimit)]

\* _run_analysis wakes up and starts the pass over the sessions
AnalysisWake(order) ==
    /\ Idle
    /\ analysis_task.st = "sleeping"
    /\ now >= analysis_task.due
    /\ order \in KeyOrders(chat_history)
    /\ analysis_task' = AnalysisMoveOn(chat_history, order, now)
    /\ lastOp' = Op("analysis_wake", "", "", "", {})
    /\ UNCHANGED << config, now, storeVars, flushVars, fileVars, pending_saves, is_running,
                    maintenance_task, mpc, lifecycle, mutations, advances, loaded_ok, burst >>

\* the upserts of _parse_and_store_results, in the order of the two for loops
RECURSIVE UpsertAll(_, _, _, _, _)
UpsertAll(map, s, contents, t, time) ==
    IF contents = << >> THEN map
    ELSE UpsertAll(AddOrUpdateStyleMap(map, s, Head(contents), t, time), s, Tail(contents), t, time)

StoreResults(map, s, resp, time) ==
    UpsertAll(UpsertAll(map, s, resp.language_style, "language_style", time),
              s, resp.grammar_feature, "grammar_feature", time)

\* n calls of _schedule_save in a row
RECURSIVE ScheduleSaveTimes(_, _, _)
ScheduleSaveTimes(f, time, n) ==
    IF n = 0 THEN f ELSE ScheduleSaveTimes(ScheduleSave(f, time), time, n - 1)

Upserts(resp) ==
    IF resp.kind = "assistant" THEN Len(resp.language_style) + Len(resp.grammar_feature) ELSE 0

\* a clear_chat_history that runs whatever became of the provider call
ClearedWhateverTheReply(resp) == TRUE

\* the reply reached _parse_and_store_results, so clear_chat_history follows:
\* a JSONDecodeError is caught inside _parse_and_store_results
Cleared(resp) == resp.kind \in {"assistant", "unparsable"}

\* an exception of the provider call ending the task
AfterAnalysisUncaught(resp, map, todo, time) ==
    IF resp.kind = "raises"
    THEN [st |-> "failed", due |-> 0, todo |-> << >>, cur |-> "", given |-> << >>]
    ELSE AnalysisMoveOn(map, todo, time)

\* the analysis task after analyze_and_learn is over for a session: `except
\* Exception` in analyze_and_learn and in the for loop of _run_analysis catch
\* whatever the call raised, and the loop goes on
AfterAnalysis(resp, map, todo, time) == AnalysisMoveOn(map, todo, time)

\* the provider call of analyze_and_learn comes back for the current session
AnalysisReturn(resp) ==
    /\ Idle
    /\ analysis_task.st = "awaiting"
    /\ Cleared(resp) => mutations < MaxMutations
    /\ LET s == analysis_task.cur
           calls == Upserts(resp) + (IF Cleared(resp) THEN 1 ELSE 0)
           after == ScheduleSaveTimes(Flush, now, calls)
       IN /\ styles' = (IF resp.kind = "assistant" THEN StoreResults(styles, s, resp, now)
                        ELSE styles)
          /\ chat_history' = (IF Cleared(resp) THEN ClearHistoryMap(chat_history, s)
                              ELSE chat_history)
          /\ dirty_styles' = (dirty_styles \/ Upserts(resp) > 0)
          /\ dirty_chat_history' = (dirty_chat_history \/ Cleared(resp))
          /\ save_timer' = after.save_timer
          /\ timers' = after.timers
          /\ analysis_task' = AfterAnalysis(resp, chat_history', analysis_task.todo, now)
          /\ mutations' = (IF Cleared(resp) THEN mutations + 1 ELSE mutations)
          /\ lastOp' = Op("analysis", s, resp.kind, "", {})
          /\ burst' = (IF Cleared(resp)
                       THEN BurstMutate(burst, save_timer,
                                (IF Upserts(resp) > 0 THEN {"styles"} ELSE {}) \cup {"history"}, now)
                       ELSE burst)
    /\ UNCHANGED << config, now, fileVars, pending_saves, is_running, maintenance_task,
                    mpc, lifecycle, advances, loaded_ok >>

\* ------------------------------------------------------------ read paths
\* the arguments and the value of a read
Call(args, value) == [args |-> args, value |-> value]

\* a selection whose draws remove from the list of the store
ListAfterSelectionAliased(list, selected) ==
    SelectSeq(list, LAMBDA r : \A k \in 1..Len(selected) : selected[k] # r.content)

\* the session's list after a selection: the draws remove from a copy of the
\* sorted copy, never from the list of the store
ListAfterSelection(list, selected) == list

\* StyleSelector.select_styles_for_session called by a consumer
Select(s, max_styles, min_proficiency, sel) ==
    /\ Idle
    /\ sel \in SelectStylesForSession(styles, s, max_styles, min_proficiency)
    /\ styles' = (IF s \in DOMAIN styles
                  THEN Put(styles, s, ListAfterSelection(styles[s],
                                          sel.language_styles \o sel.grammar_features))
                  ELSE styles)
    /\ lastOp' = [Op("select", s, "", "", {}) EXCEPT
                     !.result = Call([max_styles |-> max_styles,
                                      min_proficiency |-> min_proficiency], sel)]
    /\ UNCHANGED << config, now, chat_history, flushVars, fileVars, pending_saves,
                    schedVars, mpc, lifecycle, mutations, advances, loaded_ok, burst >>

\* StyleSelector.build_style_prompt called by a consumer
BuildPrompt(sel) ==
    /\ Idle
    /\ lastOp' = [Op("build_prompt", "", "", "", {}) EXCEPT
                     !.result = Call(sel, BuildStylePrompt(sel))]
    /\ UNCHANGED << config, now, storeVars, flushVars, fileVars, pending_saves,
                    schedVars, mpc, lifecycle, mutations, advances, loaded_ok, burst >>

\* on_llm_request -> StyleInjector.inject_style_to_prompt
Inject(s, original, sel) ==
    /\ Idle
    /\ sel \in InjectSelections(config, styles, s)
    /\ styles' = (IF ShouldInjectStyle(config, styles, s)
                  THEN Put(styles, s, ListAfterSelection(styles[s],
                                          sel.language_styles \o sel.grammar_features))
                  ELSE styles)
    /\ lastOp' = [Op("inject", s, "", "", {}) EXCEPT
                     !.result = Call([original |-> original, selected |-> sel],
                                     InjectStyleToPrompt(config, styles, s, original, sel))]
    /\ UNCHANGED << config, now, chat_history, flushVars, fileVars, pending_saves,
                    schedVars, mpc, lifecycle, mutations, advances, loaded_ok, burst >>

\* DataManager.get_chat_history called by a consumer
Recent(s, limit) ==
    /\ Idle
    /\ lastOp' = [Op("recent", s, "", "", {}) EXCEPT
                     !.result = Call([limit |-> limit], GetChatHistory(chat_history, s, limit))]
    /\ UNCHANGED << config, now, storeVars, flushVars, fileVars, pending_saves,
                    schedVars, mpc, lifecycle, mutations, advances, loaded_ok, burst >>

\* ---------------------------------------------------------- specifications
\* the inputs of the flush specification: one session, one trait
FlushSessions == {"s1"}
FlushTraits == {<< "a", "language_style" >>}
FlushConfig == Config(1, 2)

Outcomes == WriteOutcomes \cup {"skip"}

\* write coalescer and lifecycle: every operation that sets or clears a dirty
\* flag, schedules, cancels or runs a flush, under the default configuration
Next ==
    \/ \E s \in FlushSessions, tr \in FlushTraits : Upsert(s, tr[1], tr[2])
    \/ \E s \in FlushSessions : AddMessage(s)
    \/ \E s \in FlushSessions : ClearChatHistory(s)
    \/ \E s \in FlushSessions : ClearStyles(s)
    \/ \E os \in WriteOutcomes : RunSaveTask(os)
    \/ \E t \in timers, os \in Outcomes, oh \in Outcomes : DelayedSave(t, os, oh)
    \/ \E os \in Outcomes, oh \in Outcomes : ForceSave(os, oh)
    \/ \E d \in TimeSteps : Advance(d)
    \/ Initialize
    \/ \E os \in Outcomes, oh \in Outcomes : Terminate(os, oh)
    \/ \E os \in WriteOutcomes : PeriodicDecay(os)
    \/ PeriodicEvict
    \/ \E os \in WriteOutcomes : PeriodicCapacity(os)
    \/ DemandDecay
    \/ DemandEvict
    \/ DemandCapacity

FlushLoad == Json(StoreSmall)

InitFlush == Init /\ config = FlushConfig /\ styles_file = FlushLoad

Spec == InitFlush /\ [][Next]_vars

\* the upserts of the store specification: every trait into one session, one
\* trait into both
StoreUpserts == {<< "s1", tr[1], tr[2] >> : tr \in Traits} \cup {<< "s2", "a", "language_style" >>}

\* the decay counts whole days: the clock of the store specification moves by days
StoreTimeSteps == {OneDay}

\* style store and maintenance engine: every operation that changes the style
\* map, for every configuration and every load
NextStore ==
    \/ \E u \in StoreUpserts : Upsert(u[1], u[2], u[3])
    \/ \E s \in FlushSessions : ClearStyles(s)
    \/ \E d \in StoreTimeSteps : Advance(d)
    \/ Initialize
    \/ PeriodicDecay("ok")
    \/ PeriodicEvict
    \/ PeriodicCapacity("ok")
    \/ DemandDecay
    \/ DemandEvict
    \/ DemandCapacity
    \/ \E order \in KeyOrders(chat_history) : AnalysisWake(order)
    \/ \E resp \in LLMResponses : AnalysisReturn(resp)

StoreLoads == {Corrupt, Json(StoreFull), Json(StorePartial)}

InitStore == Init /\ config \in Configs /\ styles_file \in StoreLoads

SpecStore == InitStore /\ [][NextStore]_vars

\* the arguments of the reads
MaxCounts == {0, 1, 2, 3}
MinProficiencies == {0, 20}
Limits == {0, 1, 2, HistoryLimit}
Prompts == {<< >>, << " " >>, << "sys" >>}
Selections ==
    { [language_styles |-> << >>, grammar_features |-> << >>],
      [language_styles |-> << "a", "b" >>, grammar_features |-> << >>],
      [language_styles |-> << "a" >>, grammar_features |-> << "b" >>] }

ReadLoads == {Json(StoreMixed), Json(StoreFull)}

\* the read paths over a store that upserts change
NextRead ==
    \/ \E tr \in Traits : Upsert("s1", tr[1], tr[2])
    \/ Initialize
    \/ \E s \in Sessions, m \in MaxCounts, p \in MinProficiencies :
          \E sel \in SelectStylesForSession(styles, s, m, p) : Select(s, m, p, sel)
    \/ AddMessage("s1")
    \/ \E s \in Sessions, limit \in Limits : Recent(s, limit)
    \/ \E sel \in Selections : BuildPrompt(sel)
    \/ \E s \in Sessions, original \in Prompts :
          \E sel \in InjectSelections(config, styles, s) : Inject(s, original, sel)

InitRead == Init /\ config \in ReadConfigs /\ styles_file \in ReadLoads

SpecRead == InitRead /\ [][NextRead]_vars

\* errors inside the periodic tasks: a store with a record the decay raises on
\* and two sessions with history, the provider failing or not
NextFaults ==
    \/ Initialize
    \/ \E d \in TimeSteps : Advance(d)
    \/ Upsert("s1", "a", "language_style")
    \/ PeriodicDecay("ok")
    \/ \E order \in KeyOrders(styles) : PeriodicDecayRaises(order)
    \/ PeriodicEvict
    \/ PeriodicCapacity("ok")
    \/ \E order \in KeyOrders(styles) : DemandDecayRaises(order)
    \/ \E order \in KeyOrders(chat_history) : AnalysisWake(order)
    \/ \E resp \in LLMResponses : AnalysisReturn(resp)
    \/ AddMessage("s1")

InitFaults == Init /\ config \in Configs /\ styles_file = Json(StoreBroken)

SpecFaults == InitFaults /\ [][NextFaults]_vars

\* the flush left to itself: the mutations of both domains in two sessions, the
\* save task of clear_styles and the delayed flush, every write succeeding, no
\* force_save (terminate raises before it reaches it), time passing while a
\* flush is asleep
LiveSessions == {"s1", "s2"}

NextLive ==
    \/ Initialize
    \/ \E s \in LiveSessions : Upsert(s, "a", "language_style")
    \/ \E s \in LiveSessions : AddMessage(s)
    \/ ClearChatHistory("s1")
    \/ ClearStyles("s1")
    \/ RunSaveTask("ok")
    \/ \E t \in timers, os \in {"ok", "skip"}, oh \in {"ok", "skip"} : DelayedSave(t, os, oh)
    \/ Elapse
    \/ Terminate("skip", "skip")

\* the event loop runs a task that is ready: the delayed flush whose sleep is
\* over and the save task of clear_styles; the clock does not stop
FairLive ==
    /\ WF_vars(\E t \in timers, os \in {"ok", "skip"}, oh \in {"ok", "skip"} : DelayedSave(t, os, oh))
    /\ WF_vars(RunSaveTask("ok"))
    /\ WF_vars(Elapse)

SpecLive == InitFlush /\ [][NextLive]_vars /\ FairLive

\* ------------------------------------------------------------------ claims
RecordsOf(list) == {list[i] : i \in 1..Len(list)}

AllRecords == UNION {RecordsOf(styles[s]) : s \in DOMAIN styles}

\* C1: terminate cancels both periodic tasks and then force-flushes before it
\* returns: right after terminate, with no write having failed, neither task is
\* still scheduled and neither domain is dirty.
C1_TerminateFlushes ==
    (lastOp.op = "terminate" /\ lastOp.failed = {}) =>
        /\ maintenance_task.st # "sleeping"
        /\ analysis_task.st \notin {"sleeping", "awaiting"}
        /\ ~dirty_styles
        /\ ~dirty_chat_history

\* C2: a burst of mutations inside the delay window, with no other flush and no
\* failing write, is written by one delayed save: no domain is written while
\* the flush is still scheduled, and when the delayed save has run every
\* mutated domain has been written exactly once, at least the delay after the
\* last mutation.
C2_Debounce ==
    /\ (burst.pure /\ save_timer # None) => \A d \in Domains : burst.writes[d] = 0
    /\ (burst.pure /\ lastOp.op = "delayed_save") =>
          /\ \A d \in burst.mutated : burst.writes[d] = 1
          /\ now >= burst.last + SaveDelay

\* two mutations of different domains at different times, then the one write
C2_Witness ==
    /\ lastOp.op = "delayed_save"
    /\ burst.pure
    /\ burst.mutated = Domains
    /\ burst.last > 0
    /\ \A d \in Domains : burst.writes[d] = 1

\* C3: force_save cancels the pending delayed flush and writes every dirty
\* domain with the in-memory state: afterwards no delayed flush is left to run,
\* the handle is None, a domain that was dirty and whose write succeeded holds
\* the current map and is clean, and a domain that was not dirty keeps its file.
C3_ForceFlush ==
    [][lastOp'.op = "force_save" =>
          /\ save_timer' = None
          /\ timers' = {}
          /\ (dirty_styles /\ "styles" \notin lastOp'.failed) =>
                (styles_file' = Json(styles') /\ ~dirty_styles')
          /\ (dirty_chat_history /\ "history" \notin lastOp'.failed) =>
                (chat_history_file' = Json(chat_history') /\ ~dirty_chat_history')
          /\ ~dirty_styles => styles_file' = styles_file
          /\ ~dirty_chat_history => chat_history_file' = chat_history_file
          /\ lastOp'.failed = {} => (~dirty_styles' /\ ~dirty_chat_history')]_vars

\* a force_save that found a flush scheduled and a changed style map
C3_Witness ==
    /\ lastOp.op = "force_save"
    /\ lastOp.s = "pending"
    /\ lastOp.failed = {}
    /\ timers = {}
    /\ styles_file = Json(styles)
    /\ styles_file # FlushLoad

FlushOps == {"delayed_save", "force_save"}

\* C4: a dirty flag is cleared only in a step that leaves the file equal to the
\* map; a failing write leaves the flag as it was, a failing write of a flush
\* leaves the flag set, the maps untouched and the flush finished (the handle is
\* None), and every scheduled or forced flush attempts each dirty domain.
C4_DirtyUntilWritten ==
    [][/\ (dirty_styles /\ ~dirty_styles') => styles_file' = Json(styles')
       /\ (dirty_chat_history /\ ~dirty_chat_history') =>
              chat_history_file' = Json(chat_history')
       /\ "styles" \in lastOp'.failed =>
              (dirty_styles' = dirty_styles /\ styles_file' = styles_file)
       /\ "history" \in lastOp'.failed =>
              (dirty_chat_history' = dirty_chat_history
               /\ chat_history_file' = chat_history_file)
       /\ (lastOp'.op \in FlushOps /\ lastOp'.failed # {}) =>
              /\ styles' = styles
              /\ chat_history' = chat_history
              /\ save_timer' = None
              /\ ("styles" \in lastOp'.failed => dirty_styles')
              /\ ("history" \in lastOp'.failed => dirty_chat_history')
       /\ lastOp'.op \in FlushOps =>
              /\ dirty_styles =>
                    ("styles" \in lastOp'.failed \/ (~dirty_styles' /\ styles_file' = Json(styles)))
              /\ dirty_chat_history =>
                    ("history" \in lastOp'.failed
                     \/ (~dirty_chat_history' /\ chat_history_file' = Json(chat_history)))]_vars

\* a delayed save whose style write failed and whose history write succeeded
C4_Witness ==
    /\ lastOp.op = "delayed_save"
    /\ lastOp.failed = {"styles"}
    /\ dirty_styles
    /\ styles_file # Json(styles)
    /\ ~dirty_chat_history
    /\ chat_history_file = Json(chat_history)
    /\ save_timer = None

Matches(r, c, t) == r.content = c /\ r.type = t

\* C5: from a store of complete records, after any upserts and maintenance
\* every record has a proficiency between 0 and 100.
C5_ProficiencyRange ==
    loaded_ok => \A r \in AllRecords :
        "proficiency" \in DOMAIN r /\ 0 <= r.proficiency /\ r.proficiency <= ProficiencyCap

\* an upsert of a record of proficiency 95 stopped at the cap
C5_Witness ==
    /\ loaded_ok
    /\ lastOp.op = "upsert"
    /\ \E r \in RecordsOf(styles[lastOp.s]) :
          Matches(r, lastOp.c, lastOp.t) /\ r.proficiency = ProficiencyCap

\* C6: in every session no two records share content and type.
C6_UniquePerSession ==
    \A s \in DOMAIN styles : \A i, j \in 1..Len(styles[s]) :
        (styles[s][i].content = styles[s][j].content /\ styles[s][i].type = styles[s][j].type)
            => i = j

\* an analysis stored the same content twice and once more under the other type
C6_Witness ==
    /\ lastOp.op = "analysis"
    /\ lastOp.c = "assistant"
    /\ \E r \in RecordsOf(styles[lastOp.s]) :
          Matches(r, "a", "language_style") /\ Get(r, "last_updated", 0) = now
          /\ Proficiency(r) >= 20
    /\ \E r \in RecordsOf(styles[lastOp.s]) :
          Matches(r, "a", "grammar_feature") /\ Get(r, "last_updated", 0) = now

\* what the claim says add_or_update_style(s, c, t) makes of the map
UpsertPost(old, new, s, c, t, time) ==
    LET before == Get(old, s, << >>)
        after == new[s]
    IN /\ DOMAIN new = DOMAIN old \cup {s}
       /\ \A o \in DOMAIN old \ {s} : new[o] = old[o]
       /\ IF \A i \in 1..Len(before) : ~Matches(before[i], c, t)
          THEN after = Append(before, [content |-> c, type |-> t, proficiency |-> 10,
                                       created_at |-> time, last_updated |-> time])
          ELSE /\ Len(after) = Len(before)
               /\ \E i \in 1..Len(before) :
                     /\ Matches(before[i], c, t)
                     /\ \A j \in 1..Len(before) : j # i => after[j] = before[j]
                     /\ after[i].proficiency =
                            (IF Proficiency(before[i]) + 10 > 100 THEN 100
                             ELSE Proficiency(before[i]) + 10)
                     /\ after[i].last_updated = time
                     /\ \A k \in DOMAIN before[i] \ {"proficiency", "last_updated"} :
                            after[i][k] = before[i][k]
                     /\ DOMAIN after[i] = DOMAIN before[i] \cup {"proficiency", "last_updated"}

\* C7: an upsert of a new pair appends one record of proficiency 10 stamped now;
\* an upsert of a known pair raises that record by 10 up to 100 and stamps its
\* last_updated, and changes nothing else.
C7_Upsert ==
    [][lastOp'.op = "upsert" =>
          UpsertPost(styles, styles', lastOp'.s, lastOp'.c, lastOp'.t, now)]_vars

\* the same pair upserted twice, at two times, into a session that was empty
C7_Witness ==
    /\ lastOp.op = "upsert"
    /\ Len(styles[lastOp.s]) = 1
    /\ styles[lastOp.s][1].proficiency = 20
    /\ styles[lastOp.s][1].created_at < styles[lastOp.s][1].last_updated
    /\ styles[lastOp.s][1].last_updated = now

\* the decay rule in the words of the claim: floor(elapsed / one_day) * rate
FloorDays(r, time) == (time - Get(r, "last_updated", time)) \div OneDay

DecayPost(before, after, time, rate) ==
    IF FloorDays(before, time) * rate > 0
    THEN /\ after.proficiency =
                (IF Proficiency(before) - FloorDays(before, time) * rate < 0 THEN 0
                 ELSE Proficiency(before) - FloorDays(before, time) * rate)
         /\ after.last_updated = time
         /\ \A k \in DOMAIN before \ {"proficiency", "last_updated"} : after[k] = before[k]
    ELSE after = before

\* C8: the decay step of a maintenance pass takes floor(elapsed / day) * rate
\* from every record it applies to, not below 0, and stamps it; a record with
\* no decay due is left as it is.
C8_Decay ==
    [][lastOp'.op = "decay" =>
          /\ DOMAIN styles' = DOMAIN styles
          /\ \A s \in DOMAIN styles :
                /\ Len(styles'[s]) = Len(styles[s])
                /\ \A i \in 1..Len(styles[s]) :
                      DecayPost(styles[s][i], styles'[s][i], now,
                                config.proficiency_decay_rate)]_vars

\* two days at rate 1 took exactly 2 from the record of proficiency 50
C8_Witness ==
    /\ lastOp.op = "decay"
    /\ config.proficiency_decay_rate = 1
    /\ now = 2 * OneDay
    /\ \E r \in AllRecords :
          Proficiency(r) = 48 /\ Get(r, "last_updated", 0) = now /\ r.created_at = 0
    /\ \E r \in AllRecords : Get(r, "last_updated", 0) > now

\* C9: when a maintenance pass has completed no record has proficiency 0 or
\* lacks a proficiency.
C9_NoExhausted ==
    lastOp.op = "maintenance" =>
        \A r \in AllRecords : "proficiency" \in DOMAIN r /\ r.proficiency # 0

\* after two days at rate 1 the record of proficiency 2 is gone, the rest stay
C9_Witness ==
    /\ lastOp.op = "maintenance"
    /\ config.proficiency_decay_rate = 1
    /\ "s1" \in DOMAIN styles
    /\ Len(styles["s1"]) = 2
    /\ styles["s1"][1].proficiency = 48
    /\ styles["s1"][2].proficiency = 94

\* C10: when a maintenance pass has completed every session holds at most
\* max_styles_per_session records, for every configured limit from 0 up.
C10_Capacity ==
    lastOp.op = "maintenance" =>
        \A s \in DOMAIN styles : Len(styles[s]) <= config.max_styles_per_session

\* what the claim says the capacity step makes of one session's list: a list
\* within the limit is untouched; of a longer one the retained records come out
\* in ascending proficiency, equal ones in insertion order, and every evicted
\* record is lower than every retained one or equal and inserted earlier
CapacityPost(before, after, max_styles) ==
    IF Len(before) <= max_styles THEN after = before
    ELSE \E f \in [1..Len(after) -> 1..Len(before)] :
            /\ \A k \in 1..Len(after) : after[k] = before[f[k]]
            /\ \A k, l \in 1..Len(after) : k < l =>
                  \/ Proficiency(after[k]) < Proficiency(after[l])
                  \/ (Proficiency(after[k]) = Proficiency(after[l]) /\ f[k] < f[l])
            /\ \A e \in 1..Len(before) : (\A k \in 1..Len(after) : f[k] # e) =>
                  \A k \in 1..Len(after) :
                      \/ Proficiency(before[e]) < Proficiency(after[k])
                      \/ (Proficiency(before[e]) = Proficiency(after[k]) /\ e < f[k])

\* C11: the capacity step of a maintenance pass keeps the highest records of a
\* session over the limit, resolves ties by insertion order as a stable
\* ascending sort does, and leaves a session within the limit as it is.
C11_CapacityKeepsHighest ==
    [][lastOp'.op = "maintenance" =>
          /\ DOMAIN styles' = DOMAIN styles
          /\ \A s \in DOMAIN styles :
                CapacityPost(styles[s], styles'[s], config.max_styles_per_session)]_vars

\* two records of equal proficiency under a limit of one: the one inserted
\* later is the one retained
C11_Witness ==
    /\ lastOp.op = "maintenance"
    /\ config.max_styles_per_session = 1
    /\ mutations = 2
    /\ DOMAIN styles = {"s1"}
    /\ Len(styles["s1"]) = 1
    /\ Matches(styles["s1"][1], "b", "language_style")
    /\ styles["s1"][1].proficiency = 8

\* the candidates of a per-type selection
Candidates(s, t, min_proficiency) == Eligible(Get(styles, s, << >>), t, min_proficiency)

\* C12: a selection returns exactly min(max_count, number of eligible
\* candidates) contents for each type, also when some of the eligible
\* candidates have proficiency 0.
C12_SelectionCount ==
    lastOp.op = "select" =>
        /\ Len(lastOp.result.value.language_styles) =
              Min(lastOp.result.args.max_styles,
                  Len(Candidates(lastOp.s, "language_style", lastOp.result.args.min_proficiency)))
        /\ Len(lastOp.result.value.grammar_features) =
              Min(lastOp.result.args.max_styles,
                  Len(Candidates(lastOp.s, "grammar_feature", lastOp.result.args.min_proficiency)))

\* the last n elements of a list, all of them when it is shorter
LastN(list, n) == SubSeq(list, Len(list) - Min(n, Len(list)) + 1, Len(list))

\* C13: recent(session, limit) returns the last min(limit, length) messages of
\* the session in order, for every limit from 0 up, and changes neither the
\* history nor a dirty flag.
C13_Recent ==
    [][lastOp'.op = "recent" =>
          /\ lastOp'.result.value =
                LastN(Get(chat_history, lastOp'.s, << >>), lastOp'.result.args.limit)
          /\ chat_history' = chat_history
          /\ dirty_styles' = dirty_styles
          /\ dirty_chat_history' = dirty_chat_history]_vars

\* C14: when the periodic maintenance task wakes up and the decay raises on a
\* record of one session, the task is still scheduled afterwards and the
\* records of every other session have been decayed.
C14_MaintenanceSurvives ==
    [][(lastOp'.s = "periodic" /\ lastOp'.op \in {"decay", "decay_raised"}) =>
          /\ maintenance_task'.st = "sleeping"
          /\ \A s \in DOMAIN styles : FirstMalformed(styles[s]) = 0 =>
                \A i \in 1..Len(styles[s]) :
                    DecayPost(styles[s][i], styles'[s][i], now,
                              config.proficiency_decay_rate)]_vars

\* the sessions of a list
Range(list) == {list[i] : i \in 1..Len(list)}

\* C15: when analyze_and_learn is over for a session, with or without an
\* error, the periodic analysis task is alive and has lost no session of the
\* cycle: each session still to come is the one now awaiting the provider, is
\* still to come, or was analysed and found too short; the task sleeps again
\* only when none is left.
C15_AnalysisSurvives ==
    [][lastOp'.op = "analysis" =>
          /\ analysis_task'.st \in {"awaiting", "sleeping"}
          /\ \A s \in Range(analysis_task.todo) :
                \/ (analysis_task'.st = "awaiting" /\ analysis_task'.cur = s)
                \/ s \in Range(analysis_task'.todo)
                \/ TooShort(chat_history', s)
          /\ analysis_task'.st = "awaiting" =>
                /\ analysis_task'.cur \in Range(analysis_task.todo)
                /\ ~TooShort(chat_history', analysis_task'.cur)
          /\ analysis_task'.st = "sleeping" =>
                analysis_task'.due = now + AnalysisInterval]_vars

\* the provider raised for one session and the task awaits it for the other
C15_Witness ==
    /\ lastOp.op = "analysis"
    /\ lastOp.c = "raises"
    /\ analysis_task.st = "awaiting"
    /\ analysis_task.cur \in Sessions \ {lastOp.s}
    /\ chat_history[lastOp.s] # << >>

\* the step left exactly one delayed flush scheduled, a full delay from now, and
\* wrote nothing
Coalesced ==
    /\ save_timer' # None
    /\ timers' = {[id |-> save_timer', due |-> now + SaveDelay]}
    /\ styles_file' = styles_file
    /\ pending_saves' = pending_saves

\* C16: an upsert and a clear of a session's styles each set the style dirty
\* flag and schedule the delayed flush instead of writing the file or starting
\* a write of their own.
C16_MutationsCoalesce ==
    [][lastOp'.op \in {"upsert", "clear_styles"} => (dirty_styles' /\ Coalesced)]_vars

\* C17: no step of a maintenance pass, periodic or on demand, writes the styles
\* file, and the pass ends with the style domain dirty and the delayed flush
\* scheduled.
C17_MaintenanceCoalesces ==
    [][/\ lastOp'.op \in {"decay", "evict", "maintenance"} => styles_file' = styles_file
       /\ lastOp'.op = "maintenance" => (dirty_styles' /\ Coalesced)]_vars

\* the handlers that end with _schedule_save
Scheduling(op) ==
    \/ op.op \in {"upsert", "append", "clear_history"}
    \/ (op.op = "maintenance" /\ op.s = "demand")

\* C18: at most one delayed flush is alive and it is the one the handle names;
\* a handler that schedules leaves exactly one, a full delay from now, whatever
\* was scheduled before; the delayed flush that runs is the one the handle
\* names, after its delay, and leaves none behind.
C18_SingleFlush ==
    [][/\ Cardinality(timers') <= 1
       /\ \A t \in timers' : t.id = save_timer'
       /\ save_timer' # None => timers' # {}
       /\ Scheduling(lastOp') =>
             timers' = {[id |-> save_timer', due |-> now + SaveDelay]}
       /\ lastOp'.op = "delayed_save" =>
             /\ \E t \in timers : t.id = save_timer /\ now >= t.due
             /\ save_timer' = None
             /\ timers' = {}]_vars

\* a message scheduled the flush at time 0; an upsert at time 3 replaced it
C18_Witness ==
    /\ lastOp.op = "upsert"
    /\ now = 3
    /\ burst.pure
    /\ dirty_chat_history
    /\ Len(chat_history["s1"]) = 2
    /\ chat_history["s1"][2].timestamp = 0
    /\ timers = {[id |-> save_timer, due |-> 3 + SaveDelay]}

\* the contents are those of distinct candidates, no more than max_count of them
DistinctCandidates(contents, candidates, max_count) ==
    /\ Len(contents) <= max_count
    /\ \E f \in [1..Len(contents) -> 1..Len(candidates)] :
          /\ \A k \in 1..Len(contents) : contents[k] = candidates[f[k]].content
          /\ \A k, l \in 1..Len(contents) : k # l => f[k] # f[l]

\* C19: each content a selection returns for a type is the content of a record
\* of the session with that type and a proficiency of at least min_proficiency,
\* no record is selected twice, and each per-type list has at most max_count
\* entries.
C19_SelectionSound ==
    lastOp.op = "select" =>
        /\ DistinctCandidates(lastOp.result.value.language_styles,
              Candidates(lastOp.s, "language_style", lastOp.result.args.min_proficiency),
              lastOp.result.args.max_styles)
        /\ DistinctCandidates(lastOp.result.value.grammar_features,
              Candidates(lastOp.s, "grammar_feature", lastOp.result.args.min_proficiency),
              lastOp.result.args.max_styles)

\* a selection with threshold 20 drew the two equal records in the order
\* opposite to the sorted one and left out the records below the threshold
C19_Witness ==
    /\ lastOp.op = "select"
    /\ lastOp.result.args.min_proficiency = 20
    /\ lastOp.result.args.max_styles = 2
    /\ lastOp.result.value.language_styles = << "c", "b" >>
    /\ lastOp.result.value.grammar_features = << "a" >>
    /\ \E r \in RecordsOf(styles[lastOp.s]) : r.type = "grammar_feature" /\ Proficiency(r) = 19
    /\ \E r \in RecordsOf(styles[lastOp.s]) : r.type = "language_style" /\ Proficiency(r) = 0

\* C20: a selection, a prompt built from a selection and an injection leave the
\* style map, the history map, both dirty flags and the scheduled flush as they
\* were.
C20_ReadsArePure ==
    [][lastOp'.op \in {"select", "build_prompt", "inject"} =>
          /\ styles' = styles
          /\ chat_history' = chat_history
          /\ dirty_styles' = dirty_styles
          /\ dirty_chat_history' = dirty_chat_history
          /\ save_timer' = save_timer
          /\ timers' = timers]_vars

\* an injection that added two styles to a prompt while the style domain was
\* dirty and a flush scheduled
C20_Witness ==
    /\ lastOp.op = "inject"
    /\ lastOp.result.args.original = << "sys" >>
    /\ Len(lastOp.result.args.selected.language_styles) = 2
    /\ Len(lastOp.result.value) > 4
    /\ dirty_styles
    /\ save_timer # None
    /\ Len(styles[lastOp.s]) >= 5

\* the traits an assistant reply carries, none when it cannot be parsed
TraitsOf(kind) ==
    IF kind = "assistant"
    THEN UNION {{<< r.language_style[i], "language_style" >> : i \in DOMAIN r.language_style}
                \cup {<< r.grammar_feature[i], "grammar_feature" >> : i \in DOMAIN r.grammar_feature}
                    : r \in {x \in LLMResponses : x.kind = kind}}
    ELSE {}

\* how many times an assistant reply names the trait
Occurrences(kind, c, t) ==
    LET r == CHOOSE x \in LLMResponses : x.kind = kind
        list == IF t = "language_style" THEN r.language_style ELSE r.grammar_feature
    IN Cardinality({i \in DOMAIN list : list[i] = c})

\* one upsert for each time the reply names a trait: a known record gains 10
\* for each, a new one starts at 10 and gains 10 for each further one, up to
\* 100; every other record is as it was and nothing else is added
UpsertedPerTrait(before, after, kind, time) ==
    /\ Len(after) = Len(before)
          + Cardinality({tr \in TraitsOf(kind) : FirstMatch(before, tr[1], tr[2]) = 0})
    /\ \A i \in 1..Len(before) :
          IF << before[i].content, before[i].type >> \in TraitsOf(kind)
             /\ FirstMatch(before, before[i].content, before[i].type) = i
          THEN /\ Matches(after[i], before[i].content, before[i].type)
               /\ after[i].last_updated = time
               /\ after[i].proficiency =
                     Min(100, Proficiency(before[i])
                                 + 10 * Occurrences(kind, before[i].content, before[i].type))
          ELSE after[i] = before[i]
    /\ \A tr \in TraitsOf(kind) : FirstMatch(before, tr[1], tr[2]) = 0 =>
          \E i \in (Len(before) + 1)..Len(after) :
              /\ Matches(after[i], tr[1], tr[2])
              /\ after[i].created_at = time
              /\ after[i].last_updated = time
              /\ after[i].proficiency = Min(100, 10 * Occurrences(kind, tr[1], tr[2]))

\* C21: an analysis that comes back for a session found it with at least the
\* minimum history; with an assistant reply the session's styles have had one
\* upsert per trait of the reply and its history is empty afterwards; when the
\* provider raised or answered in another role, and when the task found every
\* session too short, styles and history are as they were.
C21_AnalysisProtocol ==
    [][/\ lastOp'.op = "analysis" =>
             /\ ~TooShort(chat_history, lastOp'.s)
             /\ \A o \in DOMAIN styles \ {lastOp'.s} : styles'[o] = styles[o]
             /\ \A o \in DOMAIN chat_history \ {lastOp'.s} : chat_history'[o] = chat_history[o]
             /\ IF lastOp'.c \in {"assistant", "unparsable"}
                THEN /\ UpsertedPerTrait(Get(styles, lastOp'.s, << >>),
                                         Get(styles', lastOp'.s, << >>), lastOp'.c, now)
                     /\ chat_history'[lastOp'.s] = << >>
                ELSE styles' = styles /\ chat_history' = chat_history
       /\ lastOp'.op = "analysis_wake" => (styles' = styles /\ chat_history' = chat_history)
       /\ (lastOp'.op = "analysis_wake" /\ analysis_task'.st = "sleeping") =>
             \A o \in DOMAIN chat_history : TooShort(chat_history, o)]_vars

\* an analysis raised a known record by 20 for a trait the reply named twice,
\* added the trait of the other type and emptied the history
C21_Witness ==
    /\ lastOp.op = "analysis"
    /\ lastOp.c = "assistant"
    /\ chat_history[lastOp.s] = << >>
    /\ \E r \in RecordsOf(styles[lastOp.s]) :
          Matches(r, "a", "language_style") /\ Proficiency(r) = 70 /\ r.last_updated = now
    /\ \E r \in RecordsOf(styles[lastOp.s]) :
          Matches(r, "a", "grammar_feature") /\ r.last_updated = now

\* C22: between handlers, a file that holds a map and whose domain's dirty flag
\* is clear holds the map in memory.
C22_DirtyFlagSound ==
    mpc = "idle" =>
        /\ (styles_file.kind = "json" /\ ~dirty_styles) => styles_file = Json(styles)
        /\ (chat_history_file.kind = "json" /\ ~dirty_chat_history) =>
               chat_history_file = Json(chat_history)

\* the messages of a history that are not in the transcript read from its offset k
NotGiven(h, given, k) == SubSeq(h, 1, k) \o SubSeq(h, k + Len(given) + 1, Len(h))

\* C23: after an analysis every message of the session that was not in the
\* transcript given to the provider is still in the session's history.
C23_NoMessageDropped ==
    [][lastOp'.op = "analysis" =>
          LET h == chat_history[lastOp'.s]
              given == analysis_task.given
          IN \E k \in 0..(Len(h) - Len(given)) :
                 /\ SubSeq(h, k + 1, k + Len(given)) = given
                 /\ Len(chat_history'[lastOp'.s]) >= Len(NotGiven(h, given, k))
                 /\ Range(NotGiven(h, given, k)) \subseteq Range(chat_history'[lastOp'.s])]_vars

\* C24: with every write succeeding and no force_save, a domain whose dirty
\* flag is set is eventually written, its file equal to its map and its flag
\* clear; a mutation that takes a sleeping flush away leaves another one
\* scheduled, SaveDelay from now.
C24_FlushLiveness ==
    /\ dirty_styles ~> (~dirty_styles /\ styles_file = Json(styles))
    /\ dirty_chat_history ~> (~dirty_chat_history /\ chat_history_file = Json(chat_history))
    /\ [][(lastOp'.op # "delayed_save" /\ timers \ timers' # {}) =>
             \E t \in timers' : t.id = save_timer' /\ t.due = now' + SaveDelay]_vars

\* styles and history were mutated one after the other and the one flush that
\* followed the second mutation wrote both
C24_Witness ==
    /\ lastOp.op = "delayed_save"
    /\ mutations = 2
    /\ now = SaveDelay
    /\ ~dirty_styles /\ ~dirty_chat_history
    /\ styles_file = Json(styles) /\ styles_file # FlushLoad
    /\ chat_history_file = Json(chat_history)
    /\ Len(chat_history["s1"]) = 2
    /\ timers = {}

\* the records of the session that the configured gate lets through
Qualifying(map, s, t) ==
    {r \in RecordsOf(Get(map, s, << >>)) :
        Get(r, "type", "") = t /\ Proficiency(r) >= config.min_proficiency_for_injection}

\* C25: every trait inject adds to the prompt is the content of a record of the
\* session, of its type, whose proficiency is at least the configured
\* min_proficiency_for_injection; when the injection is on, a record of the
\* session qualifies and max_styles_in_prompt admits a style, the prompt
\* returned carries a trait; when the injection is off or no record qualifies,
\* the prompt returned is the original.
C25_InjectionRespectsGate ==
    [][lastOp'.op = "inject" =>
          LET s == lastOp'.s
              original == lastOp'.result.args.original
              sel == lastOp'.result.args.selected
              value == lastOp'.result.value
              qualifies == /\ config.enable_style_injection
                           /\ Qualifying(styles, s, "language_style")
                                 \cup Qualifying(styles, s, "grammar_feature") # {}
          IN /\ value # original =>
                  /\ \A c \in Range(sel.language_styles) :
                        \E r \in Qualifying(styles, s, "language_style") : r.content = c
                  /\ \A c \in Range(sel.grammar_features) :
                        \E r \in Qualifying(styles, s, "grammar_feature") : r.content = c
             /\ (qualifies /\ config.max_styles_in_prompt > 0) =>
                  /\ value # original
                  /\ \E c \in Range(sel.language_styles \o sel.grammar_features) :
                        c \in Range(value)
             /\ ~qualifies => value = original]_vars

====
